---- MODULE Spec2Model ----
(***************************************************************************)
(* The request pipeline of the IndicConformer ASR service:                 *)
(*   app/main.py      the two transcription handlers and the gate          *)
(*   app/audio_io.py  upload ingestion, probing, transcoding, temp files   *)
(*   app/inference.py the engine (readiness, language check, model call)   *)
(*   app/wer_calculator.py  the WER scorer (normalization, alignment)      *)
(*                                                                         *)
(* Sizes are counted in bytes of a scaled-down mebibyte (MiB), so that the *)
(* ingestion loop is a handful of iterations.                              *)
(***************************************************************************)
EXTENDS Integers, FiniteSets, Sequences, TLC

(* ------------------------------ bounds -------------------------------- *)
\* The number of bytes in the model's "mebibyte" (1024 * 1024 in the code).
MiB == 2
\* ASR_MAX_UPLOAD_MB, the configured ceiling in MiB (200 by default).
MAX_UPLOAD_MB == 1
\* How many calls of os.remove may raise in one run.
MaxRmFailures == 1
\* The longest hypothesis and reference text, in characters.
MaxLen == 3

(* ------------------------- program constants -------------------------- *)
MAX_DURATION_MIN == 60
CONCURRENCY == 2

MAX_BYTES == MAX_UPLOAD_MB * MiB
MAX_DURATION_SEC == MAX_DURATION_MIN * 60
\* file.file.read(1024 * 1024)
CHUNK == 1 * MiB

\* One supported and one unsupported language code stand for the two classes.
SUPPORTED_LANGS == {"hi"}
Languages == {"hi", "xx"}

\* The requests of a run: one more than the gate admits (M > N).
NumReqs == CONCURRENCY + 1
Reqs == 1..NumReqs

Endpoints == {"transcribe", "transcribe_with_comparison"}

\* What ffprobe can report for a decodable file: at the ceiling, and over it.
Durations == {MAX_DURATION_SEC, MAX_DURATION_SEC + 1}

VARIABLES
    phase,        \* the startup hook's progress: "boot", "warmup", "loaded",
                  \* then "serving", or "crashed"
    engine_model, \* engine.model is not None
    engine_ready, \* engine.ready
    app_ready,    \* app.state.ready
    permits,      \* app.state.sem._value
    pc,           \* where each request's handler stands
    endpoint,     \* the route of each request
    language,     \* the language form field, "" until engine.transcribe is
                  \* called with it
    decoder,      \* decoder.lower(), as passed to engine.transcribe, while the
                  \* handler goes on to the response; "" before and after
    eof,          \* the upload stream has given its last, short chunk
    read_bytes,   \* the handler's read_bytes counter
    rawExists,    \* the raw temp file exists
    written,      \* bytes save_upload_to_tmp has written to the raw file:
                  \* kept when its loop raised, 0 again once it has returned
    canonExists,  \* the canonical (.wav) temp file exists
    dur,          \* the probed duration, -1 before the probe
    holds,        \* the request is inside "async with app.state.sem"
    calls,        \* the external capabilities invoked for the request
    inferred,     \* what engine.transcribe returned or raised, "" before it
    rmFailed,     \* the temp files whose os.remove raised
    rmFaults,     \* how many calls of os.remove have raised so far
    status,       \* the HTTP status of the response, 0 before it
    detail,       \* the kind of the HTTPException detail, "" without one
    wer,          \* the response's wer field: "unset", "null" or "value"
    wer_details,  \* the response's wer_details field: "unset", "null" (no
                  \* scoring), "error" (a dict with wer None) or "counts"
    hypothesis,   \* compute_wer: the hypothesis text, a sequence of characters
    reference,    \* compute_wer: the reference text
    wer_result    \* compute_wer: the dict it returned, NoResult before the call

vars == <<phase, engine_model, engine_ready, app_ready, permits, pc, endpoint,
          language, decoder, eof, read_bytes, rawExists, written, canonExists,
          dur, holds, calls, inferred, rmFailed, rmFaults, status, detail, wer,
          wer_details, hypothesis, reference, wer_result>>

werVars == <<hypothesis, reference, wer_result>>

\* wer_result before compute_wer has been called.
NoResult == [wer |-> <<>>, hits |-> -1, substitutions |-> -1, deletions |-> -1,
             insertions |-> -1, reference_length |-> -1, error |-> "not called"]

engineVars == <<phase, engine_model, engine_ready, app_ready>>

InitRequests ==
    /\ phase = "boot"
    /\ engine_model = FALSE
    /\ engine_ready = FALSE
    /\ app_ready = FALSE
    /\ permits = CONCURRENCY
    /\ pc = [r \in Reqs |-> "idle"]
    /\ endpoint = [r \in Reqs |-> "transcribe"]
    /\ language = [r \in Reqs |-> ""]
    /\ decoder = [r \in Reqs |-> ""]
    /\ eof = [r \in Reqs |-> FALSE]
    /\ read_bytes = [r \in Reqs |-> 0]
    /\ rawExists = [r \in Reqs |-> FALSE]
    /\ written = [r \in Reqs |-> 0]
    /\ canonExists = [r \in Reqs |-> FALSE]
    /\ dur = [r \in Reqs |-> -1]
    /\ holds = [r \in Reqs |-> FALSE]
    /\ calls = [r \in Reqs |-> {}]
    /\ inferred = [r \in Reqs |-> ""]
    /\ rmFailed = [r \in Reqs |-> {}]
    /\ rmFaults = 0
    /\ status = [r \in Reqs |-> 0]
    /\ detail = [r \in Reqs |-> ""]
    /\ wer = [r \in Reqs |-> "unset"]
    /\ wer_details = [r \in Reqs |-> "unset"]

Init ==
    /\ InitRequests
    /\ hypothesis = <<>>
    /\ reference = <<>>
    /\ wer_result = NoResult

(* ------------------------------ helpers ------------------------------- *)

\* A gate that counts one permit too many.
LockedOffByOne == permits < 0

\* asyncio.Semaphore.locked(): no permit is left.
Locked == permits = 0

\* An acquire/release pair without try/finally: an exception skips the release.
PermitsLeakOnError(p, failed) == IF failed THEN p ELSE p + 1

\* "async with" leaves the gated section: __aexit__ releases the permit on
\* the normal exit and on every exception alike.
PermitsAfterExit(p, failed) == p + 1

\* A ceiling that already rejects a total equal to it.
TooLargeAtCeiling(n) == n >= MAX_BYTES

\* _iter(): the running total crossed the ceiling.
TooLarge(n) == n > MAX_BYTES

\* A duration check that lets the first value over the ceiling through.
AudioTooLongOffByOne(d) == d > MAX_DURATION_SEC + 1

\* prepare_audio_for_model: the duration ceiling.
AudioTooLong(d) == d > MAX_DURATION_SEC

\* The handlers without "except HTTPException: raise": every exception of
\* prepare_audio_for_model becomes the 400.
PrepStatusNoReraise(exc) == 400

\* The handlers' "except HTTPException: raise / except Exception: -> 400"
\* around prepare_audio_for_model.
PrepStatus(exc) == IF exc = "too_large" THEN 413 ELSE 400

\* The handlers' mapping of what engine.transcribe raised.
InferStatus(exc) ==
    CASE exc = "ok" -> 200
      [] exc \in {"unsupported_language", "model_value_error"} -> 400
      [] OTHER -> 500

\* os.remove(path) inside "try: ... except Exception: pass": whether the file
\* still exists afterwards. It is gone unless the removal itself raised.
AfterRemove(exists, rmok) == exists /\ ~rmok

\* The "finally" of prepare_audio_for_model, entered once save_upload_to_tmp
\* has returned: the raw file is removed on every outcome of the try block.
RawAfterPrepare(exists, rmok, failed) == AfterRemove(exists, rmok)

\* The removal placed after the call instead of in a "finally": an exception
\* of engine.transcribe skips it.
CanonKeptOnError(exists, rmok, exc) ==
    IF exc = "ok" THEN exists /\ ~rmok ELSE exists

\* The "finally" around engine.transcribe: the canonical file is removed on
\* every outcome of the call.
CanonAfterInference(exists, rmok, exc) == AfterRemove(exists, rmok)

\* No handler is running: each is before its first statement, past its
\* last, or suspended in the acquire of a gate without a permit. The event
\* loop is then free to start another one.
LoopFree ==
    \A q \in Reqs : pc[q] \in {"idle", "done"} \/ (pc[q] = "gate" /\ Locked)

\* The handler returns: what is left of the upload stream is discarded.
Return(r) ==
    /\ pc' = [pc EXCEPT ![r] = "done"]
    /\ endpoint' = [endpoint EXCEPT ![r] = "transcribe"]
    /\ eof' = [eof EXCEPT ![r] = FALSE]

\* The request leaves the handler with an HTTPException.
Raise(r, st, det) ==
    /\ Return(r)
    /\ status' = [status EXCEPT ![r] = st]
    /\ detail' = [detail EXCEPT ![r] = det]

\* The request leaves "async with app.state.sem".
ExitGate(r, failed) ==
    /\ permits' = PermitsAfterExit(permits, failed)
    /\ holds' = [holds EXCEPT ![r] = FALSE]

(* ------------------------------ startup ------------------------------- *)

\* IndicASR.load, first statement: AutoModel.from_pretrained returns the
\* model or raises, and an exception ends the startup hook with an error.
FromPretrained ==
    /\ phase = "boot"
    /\ \E ok \in BOOLEAN :
         /\ engine_model' = ok
         /\ phase' = IF ok THEN "warmup" ELSE "crashed"
    /\ UNCHANGED <<engine_ready, app_ready>>
    /\ UNCHANGED <<permits, pc, endpoint, language, eof, read_bytes,
                   rawExists, written, canonExists, dur, holds, calls,
                   inferred, rmFailed, rmFaults, status, detail, wer>>
    /\ UNCHANGED <<decoder, wer_details>>
    /\ UNCHANGED werVars

\* IndicASR.load, the warm-up call of the model and then self.ready = True;
\* an exception of the call skips the assignment and ends the hook.
WarmUp ==
    /\ phase = "warmup"
    /\ \E ok \in BOOLEAN :
         /\ engine_ready' = ok
         /\ phase' = IF ok THEN "loaded" ELSE "crashed"
    /\ UNCHANGED <<engine_model, app_ready>>
    /\ UNCHANGED <<permits, pc, endpoint, language, eof, read_bytes,
                   rawExists, written, canonExists, dur, holds, calls,
                   inferred, rmFailed, rmFaults, status, detail, wer>>
    /\ UNCHANGED <<decoder, wer_details>>
    /\ UNCHANGED werVars

\* A hook that does not wait for engine.load: readiness is set while the
\* model is still loading.
LoadNotAwaited == phase \in {"boot", "warmup", "loaded"}

\* _load_model is past "engine.load()": the call has returned.
LoadReturned == phase = "loaded"

\* _load_model, last statement: app.state.ready = True; the startup is
\* complete and the server starts to dispatch requests.
Startup ==
    /\ LoadReturned
    /\ app_ready' = TRUE
    /\ phase' = "serving"
    /\ UNCHANGED <<engine_model, engine_ready>>
    /\ UNCHANGED <<permits, pc, endpoint, language, eof, read_bytes,
                   rawExists, written, canonExists, dur, holds, calls,
                   inferred, rmFailed, rmFaults, status, detail, wer>>
    /\ UNCHANGED <<decoder, wer_details>>
    /\ UNCHANGED werVars

(* ---------------------------- the handlers ---------------------------- *)

\* A request is dispatched to its handler: the content type is checked (415)
\* and the handler reaches "async with".
Arrive(r) ==
    /\ phase = "serving"
    /\ pc[r] = "idle"
    /\ \E e \in Endpoints, mimeOk \in BOOLEAN :
         IF mimeOk
           THEN /\ endpoint' = [endpoint EXCEPT ![r] = e]
                /\ pc' = [pc EXCEPT ![r] = "gate"]
                /\ UNCHANGED <<eof, status, detail>>
           ELSE Raise(r, 415, "content_type")
    /\ UNCHANGED <<engineVars, permits, read_bytes, rawExists, written,
                   canonExists, dur, holds, calls, inferred, rmFailed,
                   rmFaults, wer>>
    /\ UNCHANGED <<language, decoder, wer_details>>
    /\ UNCHANGED werVars

\* "async with app.state.sem": a permit is taken when one is left; then
\* prepare_audio_for_model starts and save_upload_to_tmp creates the raw file.
Acquire(r) ==
    /\ pc[r] = "gate"
    /\ ~Locked
    /\ permits' = permits - 1
    /\ holds' = [holds EXCEPT ![r] = TRUE]
    /\ rawExists' = [rawExists EXCEPT ![r] = TRUE]
    /\ pc' = [pc EXCEPT ![r] = "ingest"]
    /\ UNCHANGED <<engineVars, endpoint, language, eof, read_bytes, written,
                   canonExists, dur, calls, inferred, rmFailed, rmFaults,
                   status, detail, wer>>
    /\ UNCHANGED <<decoder, wer_details>>
    /\ UNCHANGED werVars

\* What file.file.read(CHUNK) can return: a full chunk while the client has
\* that much left, else what is left, which ends the stream: a short chunk
\* first, then nothing.
Chunks(atEnd) == IF atEnd THEN {0} ELSE 0..CHUNK

\* One turn of the loop of save_upload_to_tmp over _iter(): read a chunk,
\* count it, check the ceiling, write it. The file is closed when the loop
\* ends or raises; nothing removes it here, and prepare_audio_for_model has
\* not yet entered its try block. The counters are not read after the loop.
ReadChunk(r) ==
    /\ pc[r] = "ingest"
    /\ \E readOk \in BOOLEAN, chunk \in Chunks(eof[r]) :
         LET total == read_bytes[r] + chunk
         IN  IF ~readOk
               THEN /\ Raise(r, PrepStatus("prep_read"), "prep_read")
                    /\ ExitGate(r, TRUE)
                    /\ UNCHANGED <<read_bytes, written>>
               ELSE IF chunk = 0
               THEN /\ pc' = [pc EXCEPT ![r] = "decodable"]
                    /\ eof' = [eof EXCEPT ![r] = FALSE]
                    /\ read_bytes' = [read_bytes EXCEPT ![r] = 0]
                    /\ written' = [written EXCEPT ![r] = 0]
                    /\ UNCHANGED <<endpoint, status, detail, permits,
                                   holds>>
               ELSE IF TooLarge(total)
               THEN /\ read_bytes' = [read_bytes EXCEPT ![r] = total]
                    /\ Raise(r, PrepStatus("too_large"), "too_large")
                    /\ ExitGate(r, TRUE)
                    /\ UNCHANGED written
               ELSE /\ read_bytes' = [read_bytes EXCEPT ![r] = total]
                    /\ eof' = [eof EXCEPT ![r] = chunk < CHUNK]
                    /\ written' = [written EXCEPT ![r] = @ + chunk]
                    /\ UNCHANGED <<pc, endpoint, status, detail,
                                   permits, holds>>
    /\ UNCHANGED <<engineVars, rawExists, canonExists, dur, calls, inferred,
                   rmFailed, rmFaults, wer>>
    /\ UNCHANGED <<language, decoder, wer_details>>
    /\ UNCHANGED werVars

\* os.remove may raise while the run's budget of such failures lasts.
RmOutcomes == IF rmFaults < MaxRmFailures THEN BOOLEAN ELSE {TRUE}

\* The "finally" of prepare_audio_for_model.
RemoveRaw(r, rmok, failed) ==
    /\ rawExists' = [rawExists EXCEPT ![r] = RawAfterPrepare(@, rmok, failed)]
    /\ rmFailed' = [rmFailed EXCEPT ![r] = IF rmok THEN @ ELSE @ \cup {"raw"}]
    /\ rmFaults' = IF rmok THEN rmFaults ELSE rmFaults + 1

\* The exit of prepare_audio_for_model by an exception raised inside its try
\* block: the "finally" removes the raw file, the handler maps the exception
\* and "async with" is left.
PrepareFails(r, exc, rmok) ==
    /\ RemoveRaw(r, rmok, TRUE)
    /\ Raise(r, PrepStatus(exc), exc)
    /\ ExitGate(r, TRUE)

\* ensure_decodable(raw_path): ffprobe parses the file or exits non-zero.
EnsureDecodable(r) ==
    /\ pc[r] = "decodable"
    /\ calls' = [calls EXCEPT ![r] = @ \cup {"ensure_decodable"}]
    /\ \E ok \in BOOLEAN, rmok \in RmOutcomes :
         IF ok
           THEN /\ pc' = [pc EXCEPT ![r] = "duration"]
                /\ UNCHANGED <<endpoint, eof, rawExists,
                               rmFailed, rmFaults, status, detail, permits,
                               holds>>
           ELSE PrepareFails(r, "prep_undecodable", rmok)
    /\ UNCHANGED <<engineVars, read_bytes, written, canonExists, dur,
                   inferred, wer>>
    /\ UNCHANGED <<language, decoder, wer_details>>
    /\ UNCHANGED werVars

\* probe_duration(raw_path), the duration ceiling, and mkstemp(suffix=".wav")
\* for the output of the transcode.
ProbeDuration(r) ==
    /\ pc[r] = "duration"
    /\ calls' = [calls EXCEPT ![r] = @ \cup {"probe_duration"}]
    /\ \E out \in {"prep_probe", "prep_no_duration", "duration"},
          d \in Durations, rmok \in RmOutcomes :
         IF out # "duration"
           THEN /\ PrepareFails(r, out, rmok)
                /\ UNCHANGED <<dur, canonExists>>
           ELSE /\ dur' = [dur EXCEPT ![r] = d]
                /\ IF AudioTooLong(d)
                     THEN /\ PrepareFails(r, "prep_too_long", rmok)
                          /\ UNCHANGED canonExists
                     ELSE /\ canonExists' = [canonExists EXCEPT ![r] = TRUE]
                          /\ pc' = [pc EXCEPT ![r] = "transcode"]
                          /\ UNCHANGED <<endpoint, eof, rawExists,
                                         rmFailed, rmFaults, status, detail,
                                         permits, holds>>
    /\ UNCHANGED <<engineVars, read_bytes, written, inferred, wer>>
    /\ UNCHANGED <<language, decoder, wer_details>>
    /\ UNCHANGED werVars

\* to_wav16k_mono(raw_path, out_path): ffmpeg exits zero or non-zero; either
\* way the "finally" removes the raw file. Nothing removes out_path when the
\* command failed.
Transcode(r) ==
    /\ pc[r] = "transcode"
    /\ calls' = [calls EXCEPT ![r] = @ \cup {"to_wav16k_mono"}]
    /\ \E ok \in BOOLEAN, rmok \in RmOutcomes :
         IF ok
           THEN /\ RemoveRaw(r, rmok, FALSE)
                /\ pc' = [pc EXCEPT ![r] = "infer"]
                /\ UNCHANGED <<endpoint, eof, status, detail,
                               permits, holds>>
           ELSE PrepareFails(r, "prep_transcode", rmok)
    /\ UNCHANGED <<engineVars, read_bytes, written, canonExists, dur,
                   inferred, wer>>
    /\ UNCHANGED <<language, decoder, wer_details>>
    /\ UNCHANGED werVars

\* An engine that does not check the language before it calls the model.
EngineOutcomeNoLanguageCheck(l, m) ==
    IF ~(engine_model /\ engine_ready) THEN "not_ready" ELSE m

\* What engine.transcribe does with language l: the readiness check, the
\* language check, then torchaudio.load and the model call, which return or
\* raise (m).
EngineOutcome(l, m) ==
    IF ~(engine_model /\ engine_ready) THEN "not_ready"
    ELSE IF l \notin SUPPORTED_LANGS THEN "unsupported_language"
    ELSE m

\* The decoder form field: a member of the enumeration in upper case, and a
\* string outside it.
Decoders == {"RNNT", "foo"}

\* Decoder = Literal["ctc", "rnnt"].
Decoder == {"ctc", "rnnt"}

\* decoder.lower().
DecoderLower(d) == IF d = "RNNT" THEN "rnnt" ELSE d

\* engine.transcribe under try/except/finally, then the exit of "async with".
\* The decoder is passed on as it came, lower-cased; the engine hands it to
\* the model without a look at it.
Transcribe(r) ==
    /\ pc[r] = "infer"
    /\ \E l \in Languages, d \in Decoders,
          m \in {"ok", "model_value_error", "inference_failed"},
          rmok \in RmOutcomes :
         LET exc == EngineOutcome(l, m)
         IN  /\ calls' = [calls EXCEPT ![r] = @ \cup
                   (IF exc \in {"not_ready", "unsupported_language"}
                      THEN {"engine.transcribe"}
                      ELSE {"engine.transcribe", "model"})]
             /\ inferred' = [inferred EXCEPT ![r] = exc]
             /\ language' = [language EXCEPT ![r] = l]
             /\ decoder' = [decoder EXCEPT ![r] =
                   IF exc = "ok" THEN DecoderLower(d) ELSE ""]
             /\ canonExists' = [canonExists EXCEPT
                                  ![r] = CanonAfterInference(@, rmok, exc)]
             /\ rmFailed' = [rmFailed EXCEPT
                               ![r] = IF rmok THEN @ ELSE @ \cup {"canon"}]
             /\ rmFaults' = IF rmok THEN rmFaults ELSE rmFaults + 1
             /\ ExitGate(r, exc # "ok")
             /\ IF exc = "ok"
                  THEN /\ pc' = [pc EXCEPT ![r] = "score"]
                       /\ UNCHANGED <<endpoint, eof, status, detail>>
                  ELSE Raise(r, InferStatus(exc), exc)
    /\ UNCHANGED <<engineVars, read_bytes, rawExists, written, dur, wer>>
    /\ UNCHANGED wer_details
    /\ UNCHANGED werVars

\* A handler whose scoring step is not under try/except: an exception of
\* compute_wer becomes the 500 of an unhandled error.
StatusScoringUncaught(scored) == IF scored = "raised" THEN 500 ELSE 200

\* The status after the scoring step: compute_wer is called under
\* "try / except Exception", and the JSONResponse follows on every path.
StatusAfterScoring(scored) == 200

\* The handler's wer_result as the response shows it: None when nothing was
\* scored, the dict of compute_wer, or the handler's own {"wer": None, ...}
\* when compute_wer raised.
WerDetails(scored) ==
    CASE scored = "skipped" -> "null"
      [] scored = "value" -> "counts"
      [] OTHER -> "error"

\* wer_result.get("wer"), None without a wer_result.
WerField(details) == IF details = "counts" THEN "value" ELSE "null"

\* The WER step and the JSON response. /transcribe scores only a reference
\* that is given and not blank; /transcribe_with_comparison always scores.
\* compute_wer returns a defined wer, an undefined one (always so for a blank
\* reference), or raises.
Respond(r) ==
    /\ pc[r] = "score"
    /\ \E ref \in {"none", "blank", "text"},
          out \in {"value", "undefined", "raised"} :
         LET scored == IF endpoint[r] = "transcribe" /\ ref \in {"none", "blank"}
                         THEN "skipped" ELSE out
         IN  /\ endpoint[r] = "transcribe_with_comparison" => ref # "none"
             /\ ref = "blank" => out # "value"
             /\ wer_details' = [wer_details EXCEPT ![r] = WerDetails(scored)]
             /\ wer' = [wer EXCEPT ![r] = WerField(WerDetails(scored))]
             /\ status' = [status EXCEPT ![r] = StatusAfterScoring(scored)]
    /\ Return(r)
    /\ decoder' = [decoder EXCEPT ![r] = ""]
    /\ UNCHANGED <<engineVars, permits, read_bytes, rawExists, written,
                   canonExists, dur, holds, calls, inferred, rmFailed,
                   rmFaults, detail, language>>
    /\ UNCHANGED werVars

(* --------------------------- the WER scorer --------------------------- *)

\* The characters of a text: two letters, one of them also in upper case, a
\* punctuation mark and the space. A text is a sequence of characters.
Punctuation == {","}
Alphabet == {"a", "A", "b", ",", " "}
Texts == UNION {[1..n -> Alphabet] : n \in 0..MaxLen}

\* The wer of a result: None, or the fraction <<numerator, denominator>>.
None == <<>>

\* jiwer.ToLowerCase: str.lower().
Lower(c) == IF c = "A" THEN "a" ELSE c
ToLowerCase(s) == [i \in 1..Len(s) |-> Lower(s[i])]

\* jiwer.RemovePunctuation: the punctuation characters are dropped.
RemovePunctuation(s) == SelectSeq(s, LAMBDA c : c \notin Punctuation)

\* jiwer.RemoveMultipleSpaces: a run of spaces becomes one space.
RECURSIVE RemoveMultipleSpaces(_)
RemoveMultipleSpaces(s) ==
    IF Len(s) < 2 THEN s
    ELSE IF s[1] = " " /\ s[2] = " " THEN RemoveMultipleSpaces(Tail(s))
    ELSE <<s[1]>> \o RemoveMultipleSpaces(Tail(s))

RECURSIVE LStrip(_)
LStrip(s) == IF s # <<>> /\ Head(s) = " " THEN LStrip(Tail(s)) ELSE s

RECURSIVE RStrip(_)
RStrip(s) ==
    IF s # <<>> /\ s[Len(s)] = " " THEN RStrip(SubSeq(s, 1, Len(s) - 1)) ELSE s

\* str.strip() and jiwer.Strip.
Strip(s) == RStrip(LStrip(s))

\* "not s.strip()".
IsBlank(s) == Strip(s) = <<>>

\* The length of the word a text starts with.
RECURSIVE WordLen(_)
WordLen(s) == IF s = <<>> \/ Head(s) = " " THEN 0 ELSE 1 + WordLen(Tail(s))

\* str.split(): the words of a text, in order. jiwer's split on " " of a
\* text already stripped and without runs of spaces gives the same words.
RECURSIVE Split(_)
Split(s) ==
    LET t == LStrip(s)
        n == WordLen(t)
    IN  IF t = <<>> THEN <<>>
        ELSE <<SubSeq(t, 1, n)>> \o Split(SubSeq(t, n + 1, Len(t)))

\* _DEFAULT_TRANSFORM: lower case, no punctuation, single spaces, stripped.
DEFAULT_TRANSFORM(s) ==
    Strip(RemoveMultipleSpaces(RemovePunctuation(ToLowerCase(s))))

\* An error rate that divides by the number of hypothesis words.
WerOverHypothesisLength(h, s, d, i) == <<s + d + i, h + s + i>>

\* out.wer of jiwer: (S + D + I) / N with N = H + S + D.
WerOf(h, s, d, i) == <<s + d + i, h + s + d>>

\* Every alignment of the reference words r with the hypothesis words h, as
\* its counts <<hits, substitutions, deletions, insertions>>.
RECURSIVE Alignments(_, _)
Alignments(r, h) ==
    IF r = <<>> THEN {<<0, 0, 0, Len(h)>>}
    ELSE IF h = <<>> THEN {<<0, 0, Len(r), 0>>}
    ELSE LET Add(S, t) == {<<a[1] + t[1], a[2] + t[2], a[3] + t[3],
                             a[4] + t[4]>> : a \in S}
         IN  Add(Alignments(Tail(r), Tail(h)),
                 IF Head(r) = Head(h) THEN <<1, 0, 0, 0>> ELSE <<0, 1, 0, 0>>)
             \cup Add(Alignments(Tail(r), h), <<0, 0, 1, 0>>)
             \cup Add(Alignments(r, Tail(h)), <<0, 0, 0, 1>>)

\* The unit cost of an alignment.
Cost(a) == a[2] + a[3] + a[4]

\* jiwer.process_words(ref_proc, hyp_proc): the counts of a minimum-cost
\* word alignment and the error rate. Where several alignments have the
\* minimum cost the library returns one of them: any may be the one.
process_words(ref_proc, hyp_proc) ==
    LET all == Alignments(Split(ref_proc), Split(hyp_proc))
        best == {a \in all : \A b \in all : Cost(a) <= Cost(b)}
    IN  {[hits |-> a[1], substitutions |-> a[2], deletions |-> a[3],
          insertions |-> a[4], wer |-> WerOf(a[1], a[2], a[3], a[4])]
           : a \in best}

\* The dict compute_wer returns; error is "" when the key is absent.
WerDict(w, h, s, d, i, n, e) ==
    [wer |-> w, hits |-> h, substitutions |-> s, deletions |-> d,
     insertions |-> i, reference_length |-> n, error |-> e]

\* compute_wer(hypothesis, reference): the dicts it can return.
compute_wer(hyp, ref) ==
    IF IsBlank(ref)
      THEN {WerDict(None, 0, 0, 0, 0, 0, "Reference text is empty")}
    ELSE IF IsBlank(hyp)
      THEN LET ref_words == Len(Split(Strip(ref)))
           IN  {WerDict(<<1, 1>>, 0, 0, ref_words, 0, ref_words, "")}
    ELSE LET ref_proc == DEFAULT_TRANSFORM(ref)
             hyp_proc == DEFAULT_TRANSFORM(hyp)
         IN  IF IsBlank(ref_proc)
               THEN {WerDict(None, 0, 0, 0, 0, 0,
                             "Reference text is empty after normalization")}
             ELSE IF IsBlank(hyp_proc)
               THEN LET ref_words == Len(Split(ref_proc))
                    IN  {WerDict(<<1, 1>>, 0, 0, ref_words, 0, ref_words, "")}
             ELSE {LET ref_len == out.hits + out.substitutions + out.deletions
                   IN  IF ref_len = 0
                         THEN WerDict(None, 0, 0, 0, out.insertions, 0,
                                      "Reference length computed as zero")
                         ELSE WerDict(out.wer, out.hits, out.substitutions,
                                      out.deletions, out.insertions, ref_len,
                                      "")
                    : out \in process_words(ref_proc, hyp_proc)}

\* POST /compute_wer: the scorer is applied to the two form fields.
ComputeWer ==
    /\ wer_result = NoResult
    /\ wer_result' \in compute_wer(hypothesis, reference)
    /\ UNCHANGED <<engineVars, permits, pc, endpoint, language, eof,
                   read_bytes, rawExists, written, canonExists, dur, holds,
                   calls, inferred, rmFailed, rmFaults, status, detail, wer,
                   decoder, wer_details, hypothesis, reference>>

(* --------------------------- specifications --------------------------- *)

\* The handlers are coroutines whose bodies never suspend once "async with"
\* has taken a permit (every call in them is a blocking call), so the event
\* loop starts a handler only when no other handler is running.
Dispatch(r) == LoopFree /\ Arrive(r)

Step(r) ==
    \/ Acquire(r)
    \/ ReadChunk(r)
    \/ EnsureDecodable(r)
    \/ ProbeDuration(r)
    \/ Transcode(r)
    \/ Transcribe(r)
    \/ Respond(r)

Next ==
    \/ FromPretrained
    \/ WarmUp
    \/ Startup
    \/ \E r \in Reqs : Dispatch(r)
    \/ \E r \in Reqs : Step(r)

Spec == Init /\ [][Next]_vars

\* The same handlers with every stage boundary a suspension point, as when
\* the blocking calls are awaited: a handler may start while others are in
\* flight. Every behaviour of Spec is one of SpecSuspend.
NextSuspend ==
    \/ FromPretrained
    \/ WarmUp
    \/ Startup
    \/ \E r \in Reqs : Arrive(r)
    \/ \E r \in Reqs : Step(r)

SpecSuspend == Init /\ [][NextSuspend]_vars

\* Every step of a handler that has started is eventually taken: each
\* ingestion, codec and model call terminates and the scheduler is fair.
FairSuspend == SpecSuspend /\ \A r \in Reqs : WF_vars(Step(r))

\* The scorer on its own: every pair of texts up to MaxLen characters.
InitWer ==
    /\ InitRequests
    /\ hypothesis \in Texts
    /\ reference \in Texts
    /\ wer_result = NoResult

NextWer == ComputeWer

SpecWer == InitWer /\ [][NextWer]_vars

(* ------------------------------- claims ------------------------------- *)

NormalizationStages == {"ingest", "decodable", "duration", "transcode"}
GatedStages == NormalizationStages \cup {"infer"}
AllDone == \A r \in Reqs : pc[r] = "done"

\* C1: whatever the number of requests in flight, at most CONCURRENCY of
\* them are in the inference stage (engine.transcribe) at once, the two
\* endpoints counted together.
C1_AtMostNInInference ==
    Cardinality({r \in Reqs : pc[r] = "infer"}) <= CONCURRENCY

\* C1 witness: the gate is full with requests of both endpoints in the
\* inference stage while one more request waits at the gate.
C1_GateFullOneWaiting ==
    \E a, b, c \in Reqs :
        /\ pc[a] = "infer" /\ endpoint[a] = "transcribe"
        /\ pc[b] = "infer" /\ endpoint[b] = "transcribe_with_comparison"
        /\ pc[c] = "gate"
        /\ Locked

\* C2 (as claimed): a request holds a permit of the gate only while it is in
\* the inference stage; in ingestion, probing and transcoding it holds none.
C2_SlotOnlyAcrossInference ==
    \A r \in Reqs : holds[r] => pc[r] = "infer"

\* C3: the permits are conserved: the permits left are CONCURRENCY minus the
\* requests inside the gated section, never below 0 nor above CONCURRENCY; a
\* request that has left the section, by whatever error, holds none, so with
\* every request finished all the permits are back.
C3_PermitsConserved ==
    /\ permits = CONCURRENCY - Cardinality({r \in Reqs : pc[r] \in GatedStages})
    /\ permits \in 0..CONCURRENCY
    /\ \A r \in Reqs : holds[r] <=> pc[r] \in GatedStages
    /\ AllDone => permits = CONCURRENCY

\* C3 witness: every request has finished, by a 413, by an unsupported
\* language and by an inference failure, and the permits are all back.
C3_AllReleasedAfterErrors ==
    /\ AllDone
    /\ permits = CONCURRENCY
    /\ \E a, b, c \in Reqs :
         /\ status[a] = 413
         /\ status[b] = 400 /\ detail[b] = "unsupported_language"
         /\ status[c] = 500

\* C4: with more requests than permits, fair scheduling and terminating
\* calls, every request that has entered its handler eventually completes
\* with a response; none waits on the gate forever. A request that has
\* completed never starts again, so this is: whenever some request is in its
\* handler, a time comes when none is and every started one has its response.
C4_EveryRequestCompletes ==
    (\E r \in Reqs : pc[r] \notin {"idle", "done"})
        ~> (\A r \in Reqs : /\ pc[r] \in {"idle", "done"}
                            /\ pc[r] = "done" => status[r] # 0)

\* C4 witness: all the requests, one more than the gate admits, went through
\* the gate and have their responses.
C4_AllAnswered ==
    /\ NumReqs > CONCURRENCY
    /\ \A r \in Reqs :
         pc[r] = "done" /\ status[r] \in {200, 400, 413, 500}

IngestErrors == {"too_large", "prep_read"}
TryErrors == {"prep_undecodable", "prep_probe", "prep_no_duration",
              "prep_too_long", "prep_transcode"}

\* C5 (as claimed): when ingestion fails mid-stream, by the size ceiling or
\* by a read that raises, the raw temp file no longer exists when the request
\* returns.
C5_RawGoneAfterIngestFailure ==
    \A r \in Reqs :
        (pc[r] = "done" /\ detail[r] \in IngestErrors) => ~rawExists[r]

\* C6 (as claimed): prepare_audio_for_model leaves one canonical temp file
\* when it succeeds and none when it fails at any step.
C6_CanonOnlyOnSuccess ==
    \A r \in Reqs :
        /\ pc[r] = "infer" => canonExists[r]
        /\ (pc[r] = "done" /\ detail[r] \in IngestErrors \cup TryErrors)
              => ~canonExists[r]

\* C7: once engine.transcribe has been called for a request, then when the
\* request has left the gated section, whatever the call returned or raised,
\* the canonical file and the raw file are gone (each unless its own os.remove
\* raised), and the response is the one the call's outcome decides, also when
\* a removal raised: 200 on success, 400 with the ValueError's text, else 500.
C7_CleanupAfterInference ==
    \A r \in Reqs :
        (pc[r] \in {"score", "done"} /\ inferred[r] # "") =>
            /\ "canon" \notin rmFailed[r] => ~canonExists[r]
            /\ "raw" \notin rmFailed[r] => ~rawExists[r]
            /\ inferred[r] = "ok" => status[r] \in {0, 200} /\ detail[r] = ""
            /\ pc[r] = "done" /\ inferred[r] = "ok" => status[r] = 200
            /\ inferred[r] \in {"unsupported_language", "model_value_error"}
                  => status[r] = 400 /\ detail[r] = inferred[r]
            /\ inferred[r] \in {"inference_failed", "not_ready"}
                  => status[r] = 500 /\ detail[r] = inferred[r]

\* C7 witness: an inference that raised, whose canonical file could not be
\* removed, still answers 500; the raw file is gone.
C7_FailedRemovalKeepsOutcome ==
    \E r \in Reqs :
        /\ pc[r] = "done"
        /\ inferred[r] = "inference_failed"
        /\ "canon" \in rmFailed[r]
        /\ status[r] = 500
        /\ ~rawExists[r]

\* C8: ingestion never writes more than MAX_BYTES to the raw file: every
\* chunk that keeps the running total within MAX_BYTES is written, the loop
\* goes on only while the total is within MAX_BYTES, and the 413 is raised by
\* the chunk that takes the total over MAX_BYTES, before it is written. A
\* total of exactly MAX_BYTES is not rejected.
C8_CeilingEnforcedAtCrossingChunk ==
    \A r \in Reqs :
        /\ written[r] <= MAX_BYTES
        /\ pc[r] = "ingest" => written[r] = read_bytes[r]
        /\ detail[r] = "too_large" =>
              /\ read_bytes[r] > MAX_BYTES
              /\ read_bytes[r] - written[r] \in 1..CHUNK
              /\ status[r] = 413

\* C8 witness: one upload is rejected by the chunk that crosses the ceiling,
\* with MAX_BYTES bytes written, and another has had exactly MAX_BYTES bytes
\* read and written without a rejection.
C8_CrossingRejectedExactAccepted ==
    \E a, b \in Reqs :
        /\ detail[a] = "too_large" /\ written[a] = MAX_BYTES
        /\ pc[b] = "ingest" /\ read_bytes[b] = MAX_BYTES
        /\ written[b] = MAX_BYTES

\* C9: a request whose upload went over the ceiling has ended with the 413,
\* not the 400 of a preprocessing error, and no later stage was invoked for
\* it: no probe, no transcode, no inference, no canonical file.
C9_TooLargeIs413AndStops ==
    \A r \in Reqs :
        read_bytes[r] > MAX_BYTES =>
            /\ pc[r] = "done"
            /\ status[r] = 413
            /\ detail[r] = "too_large"
            /\ calls[r] = {}
            /\ inferred[r] = ""
            /\ ~canonExists[r]

\* C9 witness: a request rejected with the 413.
C9_Rejected413 ==
    \E r \in Reqs :
        pc[r] = "done" /\ status[r] = 413 /\ read_bytes[r] > MAX_BYTES

\* C10: audio whose probed duration is over MAX_DURATION_SEC fails with the
\* audio-too-long error (a 400), without a transcode and without a canonical
\* file; a duration within the ceiling does not; and a transcode or a
\* canonical file is always preceded by a duration probe within the ceiling.
C10_DurationCheckedBeforeTranscode ==
    \A r \in Reqs :
        /\ (dur[r] > MAX_DURATION_SEC) =>
              /\ pc[r] = "done"
              /\ status[r] = 400 /\ detail[r] = "prep_too_long"
              /\ "to_wav16k_mono" \notin calls[r]
              /\ ~canonExists[r]
        /\ detail[r] = "prep_too_long" => dur[r] > MAX_DURATION_SEC
        /\ ("to_wav16k_mono" \in calls[r] \/ canonExists[r]) =>
              /\ "probe_duration" \in calls[r]
              /\ dur[r] \in 0..MAX_DURATION_SEC

\* C10 witness: a request rejected as too long, and one at the ceiling that
\* was transcoded.
C10_TooLongRejectedCeilingTranscoded ==
    \E a, b \in Reqs :
        /\ pc[a] = "done" /\ dur[a] = MAX_DURATION_SEC + 1
        /\ detail[a] = "prep_too_long"
        /\ dur[b] = MAX_DURATION_SEC /\ "to_wav16k_mono" \in calls[b]

\* compute_wer has returned.
Scored == wer_result # NoResult

\* The words of the normalized reference and of the normalized hypothesis.
RefWords == Split(DEFAULT_TRANSFORM(reference))
HypWords == Split(DEFAULT_TRANSFORM(hypothesis))

\* The reference, or the hypothesis, is empty or whitespace-only before or
\* after normalization.
RefEmpty == IsBlank(reference) \/ IsBlank(DEFAULT_TRANSFORM(reference))
HypEmpty == IsBlank(hypothesis) \/ IsBlank(DEFAULT_TRANSFORM(hypothesis))

Errors(res) == res.substitutions + res.deletions + res.insertions

\* C11 (as claimed): the wer compute_wer returns is None or a value in
\* [0, 1]: whenever it is defined, substitutions + deletions + insertions is
\* at most reference_length.
C11_WerWithinUnitInterval ==
    Scored /\ wer_result.wer # None =>
        /\ wer_result.wer[2] > 0
        /\ wer_result.wer[1] \in 0..wer_result.wer[2]
        /\ Errors(wer_result) <= wer_result.reference_length

\* C11 (amended): the wer compute_wer returns is None or a value from 0 to
\* max(1, hypothesis words / reference_length), equal to (substitutions +
\* deletions + insertions) / reference_length with reference_length > 0: it
\* is within [0, 1] whenever the normalized hypothesis has no more words
\* than reference_length, and it is above 1 only by insertions.
C11_WerBoundedByLongerText ==
    Scored /\ wer_result.wer # None =>
        LET num == wer_result.wer[1]
            den == wer_result.wer[2]
            n == wer_result.reference_length
        IN  /\ den > 0 /\ n > 0 /\ num >= 0
            /\ num * n = Errors(wer_result) * den
            /\ Len(HypWords) <= n => num <= den
            /\ num * n <= den * Len(HypWords) \/ num <= den
            /\ num > den => wer_result.insertions > 0

\* C11 witness: a hypothesis of two wrong words against a reference of one
\* word scores 2.0.
C11_WerAboveOne ==
    /\ Scored
    /\ wer_result.wer = <<2, 1>>
    /\ wer_result.reference_length = 1
    /\ wer_result.substitutions = 1 /\ wer_result.insertions = 1

\* C12 (as claimed): for every hypothesis, a reference that is empty or
\* whitespace-only before or after normalization gives wer None, all the
\* counts 0 and an error text.
C12_EmptyReferenceUndefined ==
    Scored /\ RefEmpty =>
        /\ wer_result.wer = None
        /\ wer_result.hits = 0 /\ wer_result.substitutions = 0
        /\ wer_result.deletions = 0 /\ wer_result.insertions = 0
        /\ wer_result.reference_length = 0
        /\ wer_result.error # ""

\* C13 (as claimed): a reference with words after normalization and a
\* hypothesis that is empty or whitespace-only before or after normalization
\* give wer 1.0, hits, substitutions and insertions 0, and deletions and
\* reference_length the number of words of the normalized reference.
C13_EmptyHypothesisAllDeletions ==
    Scored /\ ~RefEmpty /\ HypEmpty =>
        /\ wer_result.wer # None /\ wer_result.wer[1] = wer_result.wer[2]
        /\ wer_result.hits = 0 /\ wer_result.substitutions = 0
        /\ wer_result.insertions = 0
        /\ wer_result.deletions = Len(RefWords)
        /\ wer_result.reference_length = Len(RefWords)

\* C14 (as claimed): with a reference that has words after normalization,
\* hits + substitutions + deletions is reference_length, and
\* reference_length is the number of words of the normalized reference.
C14_CountsAddUpToReferenceWords ==
    Scored /\ ~RefEmpty =>
        /\ wer_result.hits + wer_result.substitutions + wer_result.deletions
              = wer_result.reference_length
        /\ wer_result.reference_length = Len(RefWords)

\* C15 (as claimed): every exception of the model capability during
\* inference, a ValueError with a supported language included, ends the
\* request with the 500 of an inference failure; the inference stage answers
\* 400 only for a language outside the supported set.
C15_ModelExceptionIs500 ==
    \A r \in Reqs :
        /\ (pc[r] = "done" /\ "model" \in calls[r] /\ inferred[r] # "ok")
              => status[r] = 500
        /\ (pc[r] = "done" /\ inferred[r] # "" /\ status[r] = 400)
              => language[r] \notin SUPPORTED_LANGS

\* C16: a request whose language is outside SUPPORTED_LANGS ends with the
\* 400 of the unsupported-language error, and neither torchaudio.load nor
\* the model is invoked for it.
C16_UnsupportedLanguageRejected ==
    \A r \in Reqs :
        (language[r] # "" /\ language[r] \notin SUPPORTED_LANGS) =>
            /\ pc[r] = "done"
            /\ status[r] = 400
            /\ detail[r] = "unsupported_language"
            /\ "model" \notin calls[r]

\* C16 witness: a request that reached the engine with the unsupported
\* language and was answered 400 without a model call.
C16_RejectedWithoutModelCall ==
    \E r \in Reqs :
        /\ language[r] = "xx"
        /\ "engine.transcribe" \in calls[r] /\ "model" \notin calls[r]
        /\ status[r] = 400 /\ detail[r] = "unsupported_language"

\* C17: once inference has succeeded, the response is the 200 with the
\* transcript whatever scoring did; when scoring gave an error result or
\* raised, the wer field is null, and it is a value only with a scored result.
C17_ScoringNeverFatal ==
    \A r \in Reqs :
        (pc[r] = "done" /\ inferred[r] = "ok") =>
            /\ status[r] = 200 /\ detail[r] = ""
            /\ wer_details[r] \in {"null", "error", "counts"}
            /\ wer_details[r] = "error" => wer[r] = "null"
            /\ wer[r] = "value" <=> wer_details[r] = "counts"

\* C17 witness: one request whose scoring failed and one whose scoring gave
\* a value, both answered 200.
C17_FailedScoringStill200 ==
    \E a, b \in Reqs :
        /\ pc[a] = "done" /\ inferred[a] = "ok" /\ status[a] = 200
        /\ wer_details[a] = "error" /\ wer[a] = "null"
        /\ pc[b] = "done" /\ status[b] = 200 /\ wer[b] = "value"

\* The stages that run the external codec process or the model.
LongStages == {"decodable", "duration", "transcode", "infer"}

\* C18 (as claimed): while a request is in normalization (the codec process)
\* or in inference, or waits on the gate, the scheduler can still start the
\* handler of another request that has arrived.
C18_OthersRunDuringLongStages ==
    \A r, q \in Reqs :
        /\ r # q
        /\ pc[r] \in LongStages \/ (pc[r] = "gate" /\ Locked)
        /\ pc[q] = "idle"
        => ENABLED Dispatch(q)

\* C19 (as claimed): the model is never invoked with a decoder outside
\* {"ctc", "rnnt"}, whatever decoder string the request gave.
C19_DecoderValidatedBeforeDispatch ==
    \A r \in Reqs :
        ("model" \in calls[r] /\ decoder[r] # "") => decoder[r] \in Decoder

\* C20: app.state.ready implies engine.ready and a loaded model, in every
\* state; no transcription fails with "Model not ready"; and when engine.load
\* failed, neither readiness flag is set and no request is dispatched.
C20_ReadyImpliesEngineReady ==
    /\ app_ready => engine_ready /\ engine_model
    /\ engine_ready => engine_model
    /\ phase = "crashed" => ~app_ready /\ ~engine_ready
    /\ \A r \in Reqs :
         /\ inferred[r] # "not_ready" /\ detail[r] # "not_ready"
         /\ pc[r] # "idle" => app_ready

\* C20 witness: the service is ready and a transcription has succeeded.
C20_ReadyAndTranscribed ==
    /\ app_ready /\ engine_ready /\ engine_model
    /\ \E r \in Reqs : pc[r] = "done" /\ inferred[r] = "ok" /\ status[r] = 200

====
